---- MODULE Spec2Model ----
(***************************************************************************)
(* A model of package graph (the DAG used to order the mutations of a      *)
(* reconciliation pass): the vertex and edge maps, the mutation            *)
(* primitives, validate(), topologicalOrder() and the two walks.           *)
(*                                                                         *)
(* Go iterates a map in an unspecified order, so every `for ... range` of  *)
(* the source over d.vertices or d.edges is modelled as a choice among all *)
(* iteration orders: validate, topologicalOrder and the walks are sets of  *)
(* possible outcomes, and an action picks one of them.                     *)
(*                                                                         *)
(* The second part models the two builders of package view,                *)
(* getObjectTreeFromCache and getObjectsFromCache, over a fixed store of   *)
(* objects: a build runs under a rule list and a scheme chosen at the      *)
(* start, a query may fail or return its objects in any order, and the     *)
(* variable build holds the call stack, the waiting list, the results and  *)
(* the calls made so far.                                                  *)
(***************************************************************************)
EXTENDS Integers, Sequences, FiniteSets, TLC

\* The largest number of edges the store is let grow to.
MaxEdges == 3

\* Vertex identities. A Vertex is an opaque interface{} compared by identity;
\* nil is the nil interface value.
nil == "nil"
Vertex == {"R", "A", "B"}
VertexOrNil == Vertex \cup {nil}

VARIABLES
    vertices,   \* d.vertices: the key set of map[Vertex]Vertex
    edges,      \* d.edges: the key set of map[Edge]Edge, a set of edge instances
    last,       \* the last call made on the DAG, its arguments and what it returned
    build       \* the object tree / object set build in progress (package view)

vars == <<vertices, edges, last>>

----------------------------------------------------------------------------
\* Edge instances. An Edge is a pointer (*realEdge): two instances with the
\* same endpoints are different map keys. n tells the instances of one
\* endpoint pair apart.

From(e) == e.F
To(e) == e.T

Min(S) == CHOOSE x \in S : \A y \in S : x <= y

\* RealEdge allocates a new instance: one that is no key of d.edges yet.
RealEdge(from, to) ==
    [F |-> from, T |-> to,
     n |-> Min({i \in 1..(Cardinality(edges) + 1) :
                  [F |-> from, T |-> to, n |-> i] \notin edges})]

\* The edges a caller can pass: an instance the store holds, or a new one.
EdgeArgs == edges \cup {RealEdge(f, t) : f \in VertexOrNil, t \in VertexOrNil}

\* The errors of the package, and the error of the caller's walkFunc.
NoErr == [msg |-> "nil", v |-> nil]
ErrNoRoot == [msg |-> "no single Root found", v |-> nil]
ErrSelfCycle(v) == [msg |-> "self-cycle found", v |-> v]
ErrCycle == [msg |-> "cycle found", v |-> nil]
ErrFn == [msg |-> "walkFunc error", v |-> nil]

----------------------------------------------------------------------------
\* Queries.

\* The entries `for e := range d.edges` appends in outAdj / inAdj, one per
\* stored edge instance: k is the edge, v the adjacent vertex.
outAdj(v) == {[k |-> e, v |-> To(e)] : e \in {x \in edges : From(x) = v}}
inAdj(v) == {[k |-> e, v |-> From(e)] : e \in {x \in edges : To(x) = v}}

\* The entries of `for v := range d.vertices`.
VertexEntries == {[k |-> v, v |-> v] : v \in vertices}

\* Mutant of Roots: the vertices without outgoing edges are collected.
RootsNoOut == {n \in vertices : outAdj(n) = {}}

Roots == {n \in vertices : inAdj(n) = {}}

\* Mutant of Root: any zero-in-degree vertex will do.
RootAny == IF Roots = {} THEN nil ELSE CHOOSE n \in Roots : TRUE

Root == IF Cardinality(Roots) # 1 THEN nil ELSE CHOOSE n \in Roots : TRUE

----------------------------------------------------------------------------
\* validate(): single root, then self-cycle, then the depth-first cycle search.

\* walk of validate(). st is [walked, marked, err]: the two maps of the
\* source and whether a call has returned "cycle found". The result is the
\* set of states the call can end in, one per iteration order.
RECURSIVE cycleWalk(_, _), cycleWalkEach(_, _)
\* Mutant of cycleWalk: a vertex on the current path is taken for a finished one.
cycleWalkNoMark(v, st) ==
    IF v \in st.walked \cup st.marked THEN {st}
    ELSE {IF s.err THEN s
          ELSE [s EXCEPT !.marked = @ \ {v}, !.walked = @ \cup {v}] :
            s \in cycleWalkEach(outAdj(v), [st EXCEPT !.marked = @ \cup {v}])}

cycleWalk(v, st) ==
    IF v \in st.walked THEN {st}
    ELSE IF v \in st.marked THEN {[st EXCEPT !.err = TRUE]}
    ELSE {IF s.err THEN s
          ELSE [s EXCEPT !.marked = @ \ {v}, !.walked = @ \cup {v}] :
            s \in cycleWalkEach(outAdj(v), [st EXCEPT !.marked = @ \cup {v}])}

\* `for ... range entries { if err := walk(vertex); err != nil { return err } }`
cycleWalkEach(entries, st) ==
    IF entries = {} \/ st.err THEN {st}
    ELSE UNION {UNION {cycleWalkEach(entries \ {x}, s) : s \in cycleWalk(x.v, st)} :
                  x \in entries}

\* Mutant of SelfCycles: the self-cycle validation finds nothing.
SelfCyclesNone == {}

SelfCycles == {e \in edges : From(e) = To(e)}

\* Mutant of validate: the depth-first search runs before the self-cycle
\* validation.
validateCycleFirst ==
    IF Root = nil THEN {ErrNoRoot}
    ELSE LET found == {IF s.err THEN ErrCycle ELSE NoErr :
                         s \in cycleWalkEach(VertexEntries,
                                             [walked |-> {}, marked |-> {}, err |-> FALSE])}
         IN  IF found # {NoErr} THEN found \ {NoErr}
             ELSE IF SelfCycles # {} THEN {ErrSelfCycle(From(e)) : e \in SelfCycles}
             ELSE {NoErr}

\* The errors validate() can return (NoErr: it returns nil).
validate ==
    IF Root = nil THEN {ErrNoRoot}
    ELSE IF SelfCycles # {} THEN {ErrSelfCycle(From(e)) : e \in SelfCycles}
    ELSE {IF s.err THEN ErrCycle ELSE NoErr :
            s \in cycleWalkEach(VertexEntries, [walked |-> {}, marked |-> {}, err |-> FALSE])}

----------------------------------------------------------------------------
\* topologicalOrder(reverse).

Range(seq) == {seq[i] : i \in 1..Len(seq)}

\* Mutant of topoAdj: the two directions exchanged.
topoAdjSwapped(v, reverse) == IF reverse THEN inAdj(v) ELSE outAdj(v)

topoAdj(v, reverse) == IF reverse THEN outAdj(v) ELSE inAdj(v)

\* walk of topologicalOrder(). walked[v] is set exactly when v is appended
\* to orders, so orders alone is the state. path holds the vertices whose
\* call is in progress: the source has no such guard, and re-entering one of
\* them recurses forever, so that call has no outcome.
RECURSIVE topoWalk(_, _, _, _), topoWalkEach(_, _, _, _)
\* Mutant of topoWalk: v is appended before its adjacent vertices are walked.
topoWalkPreOrder(v, orders, reverse, path) ==
    IF v \in Range(orders) THEN {orders}
    ELSE topoWalkEach(topoAdj(v, reverse), Append(orders, v), reverse, path \cup {v})

topoWalk(v, orders, reverse, path) ==
    IF v \in Range(orders) THEN {orders}
    ELSE IF v \in path THEN {}
    ELSE {Append(o, v) : o \in topoWalkEach(topoAdj(v, reverse), orders, reverse, path \cup {v})}

topoWalkEach(entries, orders, reverse, path) ==
    IF entries = {} THEN {orders}
    ELSE UNION {UNION {topoWalkEach(entries \ {x}, o, reverse, path) :
                         o \in topoWalk(x.v, orders, reverse, path)} :
                  x \in entries}

\* Mutant of topologicalOrder: the walk starts at the root only.
topologicalOrderFromRoot(reverse) == topoWalk(Root, <<>>, reverse, {})

\* The vertex lists topologicalOrder(reverse) can return.
topologicalOrder(reverse) == topoWalkEach(VertexEntries, <<>>, reverse, {})

----------------------------------------------------------------------------
\* The calls.

\* NewDAG: two empty maps.
NewDAG ==
    /\ vertices = {}
    /\ edges = {}
    /\ last = [op |-> "NewDAG"]

\* Mutant of HasEdge: the endpoint search never finds the pair.
HasEdgeNever(from, to) == FALSE

\* `for k := range d.edges { if k.From() == from && k.To() == to ... }`
HasEdge(from, to) == \E k \in edges : From(k) = from /\ To(k) = to

\* Mutant of AddVertex: a vertex that is already stored is refused.
AddVertexOnce(v) ==
    /\ vertices' = IF v = nil THEN vertices ELSE vertices \cup {v}
    /\ UNCHANGED <<edges, build>>
    /\ last' = [op |-> "AddVertex", v |-> v, ret |-> (v # nil /\ v \notin vertices),
                had |-> (v \in vertices)]

AddVertex(v) ==
    /\ vertices' = IF v = nil THEN vertices ELSE vertices \cup {v}
    /\ UNCHANGED <<edges, build>>
    /\ last' = [op |-> "AddVertex", v |-> v, ret |-> (v # nil), had |-> (v \in vertices)]

\* Mutant of RemoveVertex: only the out edges of v are deleted.
RemoveVertexOutOnly(v) ==
    /\ edges' = IF v = nil THEN edges ELSE {k \in edges : From(k) # v}
    /\ vertices' = IF v = nil THEN vertices ELSE vertices \ {v}
    /\ last' = [op |-> "RemoveVertex", v |-> v, ret |-> TRUE,
                had |-> (v \in vertices),
                cut |-> Cardinality({k \in edges : From(k) = v \/ To(k) = v})]
    /\ UNCHANGED build

RemoveVertex(v) ==
    /\ edges' = IF v = nil THEN edges
                ELSE {k \in edges : ~(From(k) = v \/ To(k) = v)}
    /\ vertices' = IF v = nil THEN vertices ELSE vertices \ {v}
    /\ last' = [op |-> "RemoveVertex", v |-> v, ret |-> TRUE,
                had |-> (v \in vertices),
                cut |-> Cardinality({k \in edges : From(k) = v \/ To(k) = v})]
    /\ UNCHANGED build

\* What AddEdge(e) leaves in d.edges, and what it returns.
AddEdgeStore(e) ==
    IF From(e) = nil \/ To(e) = nil THEN edges
    ELSE IF HasEdge(From(e), To(e)) THEN edges
    ELSE edges \cup {e}

AddEdge(e) ==
    /\ Cardinality(AddEdgeStore(e)) <= MaxEdges
    /\ edges' = AddEdgeStore(e)
    /\ UNCHANGED <<vertices, build>>
    /\ last' = [op |-> "AddEdge", e |-> e, ret |-> (From(e) # nil /\ To(e) # nil),
                had |-> HasEdge(From(e), To(e))]

\* Mutant of RemoveEdge: only the instance handed in is deleted.
RemoveEdgeByInstance(e) ==
    /\ edges' = edges \ {e}
    /\ UNCHANGED <<vertices, build>>
    /\ last' = [op |-> "RemoveEdge", e |-> e, ret |-> TRUE, held |-> (e \in edges),
                cut |-> Cardinality({k \in edges : From(k) = From(e) /\ To(k) = To(e)})]

RemoveEdge(e) ==
    /\ edges' = {k \in edges : ~(From(k) = From(e) /\ To(k) = To(e))}
    /\ UNCHANGED <<vertices, build>>
    /\ last' = [op |-> "RemoveEdge", e |-> e, ret |-> TRUE, held |-> (e \in edges),
                cut |-> Cardinality({k \in edges : From(k) = From(e) /\ To(k) = To(e)})]

\* Mutant of ConnectStore: only the source endpoint is tested for nil.
ConnectStoreFromOnly(from, to) ==
    IF from = nil THEN edges
    ELSE IF HasEdge(from, to) THEN edges
    ELSE edges \cup {RealEdge(from, to)}

\* What Connect(from, to) leaves in d.edges.
ConnectStore(from, to) ==
    IF from = nil \/ to = nil THEN edges
    ELSE IF HasEdge(from, to) THEN edges
    ELSE edges \cup {RealEdge(from, to)}

Connect(from, to) ==
    /\ Cardinality(ConnectStore(from, to)) <= MaxEdges
    /\ edges' = ConnectStore(from, to)
    /\ UNCHANGED <<vertices, build>>
    /\ last' = [op |-> "Connect", from |-> from, to |-> to,
                ret |-> (from # nil /\ to # nil), had |-> HasEdge(from, to)]

\* Mutant of walkLoop: the error is kept and returned after the last vertex.
walkLoopNoStop(orders, failAt, calls) ==
    [err |-> IF failAt \in (Len(calls) + 1)..(Len(calls) + Len(orders)) THEN ErrFn ELSE NoErr,
     calls |-> calls \o orders]

\* `for _, v := range orders { if err := walkFunc(v); err != nil { return err } }`
\* with a walkFunc that returns an error on its failAt-th invocation (0: never).
\* calls is the list of the invocations made so far.
RECURSIVE walkLoop(_, _, _)
walkLoop(orders, failAt, calls) ==
    IF orders = <<>> THEN [err |-> NoErr, calls |-> calls]
    ELSE IF Len(calls) + 1 = failAt
         THEN [err |-> ErrFn, calls |-> Append(calls, Head(orders))]
         ELSE walkLoop(Tail(orders), failAt, Append(calls, Head(orders)))

\* Mutant of plan: the order is computed without validate().
planUnvalidated(reverse) == {[err |-> NoErr, orders |-> o] : o \in topologicalOrder(reverse)}

\* validate() and topologicalOrder(reverse) of a walk: the error validate
\* returns and, when it is nil, the order computed.
plan(reverse) ==
    LET errs == validate
    IN  {[err |-> e, orders |-> <<>>] : e \in errs \ {NoErr}}
        \cup (IF NoErr \in errs
              THEN {[err |-> NoErr, orders |-> o] : o \in topologicalOrder(reverse)}
              ELSE {})

\* The outcome of a walk: the error returned and the invocations of walkFunc.
walk(p, failAt) ==
    IF p.err # NoErr THEN [err |-> p.err, calls |-> <<>>]
    ELSE walkLoop(p.orders, failAt, <<>>)

\* The invocation on which the caller's walkFunc fails (0: on none).
FailAts == 0..Cardinality(Vertex)

\* The vertex the call just before removed from the vertex set (nil: none).
Removed == IF last.op = "RemoveVertex" /\ last.had THEN last.v ELSE nil

\* The invocations of the walk just before, when this walk repeats it on the
\* graph as it was and both run to the end (<<>>: there is none).
Before(op, failAt) ==
    IF last.op = op /\ last.failAt = 0 /\ last.err = NoErr /\ failAt = 0
    THEN <<last.calls>>
    ELSE <<>>

\* Mutant of WalkTopoOrder: the order is computed over either adjacency.
WalkTopoOrderEitherWay ==
    /\ \E p \in plan(FALSE) \cup plan(TRUE) : \E failAt \in FailAts :
          last' = [op |-> "WalkTopoOrder", failAt |-> failAt,
                   err |-> walk(p, failAt).err, calls |-> walk(p, failAt).calls,
                   removed |-> Removed, before |-> Before("WalkTopoOrder", failAt)]
    /\ UNCHANGED <<vertices, edges, build>>

WalkTopoOrder ==
    /\ \E p \in plan(FALSE) : \E failAt \in FailAts :
          last' = [op |-> "WalkTopoOrder", failAt |-> failAt,
                   err |-> walk(p, failAt).err, calls |-> walk(p, failAt).calls,
                   removed |-> Removed, before |-> Before("WalkTopoOrder", failAt)]
    /\ UNCHANGED <<vertices, edges, build>>

WalkReverseTopoOrder ==
    /\ \E p \in plan(TRUE) : \E failAt \in FailAts :
          last' = [op |-> "WalkReverseTopoOrder", failAt |-> failAt,
                   err |-> walk(p, failAt).err, calls |-> walk(p, failAt).calls,
                   removed |-> Removed, before |-> Before("WalkReverseTopoOrder", failAt)]
    /\ UNCHANGED <<vertices, edges, build>>

\* A call of Root().
CallRoot ==
    /\ last' = [op |-> "Root", ret |-> Root]
    /\ UNCHANGED <<vertices, edges, build>>

Next ==
    \/ \E v \in VertexOrNil : AddVertex(v)
    \/ \E v \in VertexOrNil : RemoveVertex(v)
    \/ \E e \in EdgeArgs : AddEdge(e)
    \/ \E e \in EdgeArgs : RemoveEdge(e)
    \/ \E from \in VertexOrNil, to \in VertexOrNil : Connect(from, to)
    \/ WalkTopoOrder
    \/ WalkReverseTopoOrder
    \/ CallRoot

\* No build of package view is in progress.
NoBuild == [pc |-> "Idle"]

\* A new DAG, and no build.
Init == NewDAG /\ build = NoBuild

Spec == Init /\ [][Next]_vars

\* ---------------------------------------------------------------------
\* Package view: the object tree and the object set built from a root
\* object, a list of ownership rules and the objects a client can list.

\* The recursion depth of getObjectTreeFromCache and the number of loop
\* iterations of getObjectsFromCache that are followed, and the longest rule
\* list handed in.
MaxDepth == 5
MaxExpand == 11
MaxRules == 3

\* A nil pointer, map or slice, and a pointer to (or a non-nil map) x.
Nil == <<>>
Ptr(x) == <<x>>

NoError == "nil"
ErrNoKind == "no kind is registered for the type"
ErrGroupVersion == "unexpected GroupVersion string"
ErrMatchingLabels == "parse matching labels failed"
ErrFieldPath == "field path not found"
ErrList == "list failed"

\* The API version strings of the rules, character by character.
AppsV1 == <<"a", "p", "p", "s", "/", "v", "1">>
AppsV2 == <<"a", "p", "p", "s", "/", "v", "2">>
V1 == <<"v", "1">>
CoreV1 == <<"c", "o", "r", "e", "/", "v", "1">>
BadVersion == <<"a", "/", "b", "/", "c">>

ClusterGVK == [Group |-> <<"a", "p", "p", "s">>, Version |-> <<"v", "1">>, Kind |-> "Cluster"]
PodGVK == [Group |-> <<>>, Version |-> <<"v", "1">>, Kind |-> "Pod"]
ConfigMapGVK == [Group |-> <<>>, Version |-> <<"v", "1">>, Kind |-> "ConfigMap"]

ListKind(gvk) == [Group |-> gvk.Group, Version |-> gvk.Version, Kind |-> gvk.Kind \o "List"]

\* The objects of the store: one Cluster, the Pods p1 and p2 labelled app=X,
\* a Pod p3 of another application, and one ConfigMap per Pod of the Cluster.
Objects == {"c", "p1", "p2", "p3", "m1", "m2"}

object(type, name, labels, fields) ==
    [type |-> type, Namespace |-> "ns", Name |-> name, UID |-> "uid-" \o name,
     ResourceVersion |-> "1", labels |-> labels, fields |-> fields]

NoFields == [p \in {} |-> {}]

Obj(id) ==
    CASE id = "c"  -> object(ClusterGVK, "c", {<<"tier", "root">>},
                             [p \in {"spec.selector"} |-> {<<"app", "X">>}])
      [] id = "p1" -> object(PodGVK, "p1", {<<"app", "X">>}, NoFields)
      [] id = "p2" -> object(PodGVK, "p2", {<<"app", "X">>}, NoFields)
      [] id = "p3" -> object(PodGVK, "p3", {<<"app", "Y">>}, NoFields)
      [] id = "m1" -> object(ConfigMapGVK, "m1", {<<"owner", "p1">>, <<"app", "X">>}, NoFields)
      [] id = "m2" -> object(ConfigMapGVK, "m2", {<<"owner", "p2">>}, NoFields)

\* The root object the builds start from.
root == "c"

\* The kinds a scheme can have registered.
AllKinds == {ClusterGVK, PodGVK, ConfigMapGVK,
             ListKind(ClusterGVK), ListKind(PodGVK), ListKind(ConfigMapGVK)}
Schemes == {AllKinds, AllKinds \ {ConfigMapGVK}, AllKinds \ {ListKind(PodGVK)}}

\* Ownership rules.
LabelCriteria(labels) == [SelectorCriteria |-> Nil, LabelCriteria |-> Ptr(labels)]
SelectorCriteria(path) == [SelectorCriteria |-> Ptr([Path |-> path]), LabelCriteria |-> Nil]
NoCriteria == [SelectorCriteria |-> Nil, LabelCriteria |-> Nil]
ObjectType(apiVersion, kind) == [APIVersion |-> apiVersion, Kind |-> kind]
OwnedResource(secondary, criteria) == [Secondary |-> secondary, Criteria |-> criteria]
OwnershipRule(primary, owned) == [Primary |-> primary, OwnedResources |-> owned]

rClusterPods ==
    OwnershipRule(ObjectType(AppsV1, "Cluster"),
        <<OwnedResource(ObjectType(V1, "Pod"), LabelCriteria({<<"app", "X">>}))>>)
rPodConfigMaps ==
    OwnershipRule(ObjectType(V1, "Pod"),
        <<OwnedResource(ObjectType(V1, "ConfigMap"),
                        LabelCriteria({<<"owner", "$(primary.name)">>}))>>)
rClusterBoth ==
    OwnershipRule(ObjectType(AppsV1, "Cluster"),
        <<OwnedResource(ObjectType(V1, "ConfigMap"), LabelCriteria({<<"app", "X">>})),
          OwnedResource(ObjectType(V1, "Pod"), SelectorCriteria("spec.selector"))>>)
rConfigMapCluster ==
    OwnershipRule(ObjectType(V1, "ConfigMap"),
        <<OwnedResource(ObjectType(AppsV1, "Cluster"), LabelCriteria({<<"tier", "root">>}))>>)
rBadPrimary ==
    OwnershipRule(ObjectType(BadVersion, "Cluster"),
        <<OwnedResource(ObjectType(V1, "Pod"), LabelCriteria({<<"app", "X">>}))>>)
rBadSecondary ==
    OwnershipRule(ObjectType(V1, "Pod"),
        <<OwnedResource(ObjectType(BadVersion, "ConfigMap"), LabelCriteria({}))>>)
rNoCriteria ==
    OwnershipRule(ObjectType(V1, "ConfigMap"),
        <<OwnedResource(ObjectType(V1, "Pod"), NoCriteria)>>)
rBadPath ==
    OwnershipRule(ObjectType(V1, "Pod"),
        <<OwnedResource(ObjectType(V1, "ConfigMap"), SelectorCriteria("spec.missing"))>>)
rOtherVersion ==
    OwnershipRule(ObjectType(AppsV2, "Cluster"),
        <<OwnedResource(ObjectType(V1, "ConfigMap"), LabelCriteria({<<"app", "X">>}))>>)
rOtherGroup ==
    OwnershipRule(ObjectType(CoreV1, "Pod"),
        <<OwnedResource(ObjectType(V1, "ConfigMap"), LabelCriteria({}))>>)

RulePool == <<rClusterPods, rPodConfigMaps, rClusterBoth, rConfigMapCluster, rBadPrimary,
              rBadSecondary, rNoCriteria, rBadPath, rOtherVersion, rOtherGroup>>

\* The rule lists handed in: up to MaxRules rules of the pool, in its order.
RuleLists ==
    {[i \in 1..Len(ix) |-> RulePool[ix[i]]] :
        ix \in {s \in UNION {[1..n -> DOMAIN RulePool] : n \in 0..MaxRules} :
                    \A i \in 1..(Len(s) - 1) : s[i] < s[i + 1]}}

\* Before a build: the rule list and the client's scheme are fixed.
IdleBuild(rules, scheme) ==
    [pc |-> "Idle", rules |-> rules, scheme |-> scheme,
     stack |-> <<>>, tree |-> Nil, err |-> NoError, calls |-> <<>>,
     waitingList |-> <<>>, objectSet |-> Nil, objectMap |-> Nil]

\* schema.ParseGroupVersion: "" and "/" give the empty group and version, a
\* string without "/" is a version, one "/" separates group and version, and
\* more than one "/" is an error.
ParseGroupVersion(gv) ==
    LET slashes == {i \in 1..Len(gv) : gv[i] = "/"}
    IN  IF Len(gv) = 0 \/ gv = <<"/">>
        THEN [err |-> NoError, Group |-> <<>>, Version |-> <<>>]
        ELSE IF Cardinality(slashes) = 0
        THEN [err |-> NoError, Group |-> <<>>, Version |-> gv]
        ELSE IF Cardinality(slashes) = 1
        THEN [err |-> NoError, Group |-> SubSeq(gv, 1, Min(slashes) - 1),
              Version |-> SubSeq(gv, Min(slashes) + 1, Len(gv))]
        ELSE [err |-> ErrGroupVersion, Group |-> <<>>, Version |-> <<>>]

objectTypeToGVK(objectType) ==
    LET gv == ParseGroupVersion(objectType.APIVersion)
    IN  [err |-> gv.err,
         gvk |-> [Group |-> gv.Group, Version |-> gv.Version, Kind |-> objectType.Kind]]

\* apiutil.GVKForObject: the kind under which the object's type is registered
\* in the client's scheme.
GVKForObject(o) ==
    [err |-> IF o.type \in build.scheme THEN NoError ELSE ErrNoKind, gvk |-> o.type]

\* GroupVersion.String().
GroupVersionString(gvk) ==
    IF Len(gvk.Group) > 0 THEN gvk.Group \o <<"/">> \o gvk.Version ELSE gvk.Version

\* Mutant of getObjectRef: the key leaves the object's name out.
getObjectRefNoName(o) ==
    LET g == GVKForObject(o)
    IN  [err |-> g.err,
         key |-> [GroupVersionKind |-> g.gvk,
                  ObjectKey |-> [Namespace |-> o.Namespace, Name |-> ""]]]

getObjectRef(o) ==
    LET g == GVKForObject(o)
    IN  [err |-> g.err,
         key |-> [GroupVersionKind |-> g.gvk,
                  ObjectKey |-> [Namespace |-> o.Namespace, Name |-> o.Name]]]

getObjectReference(o) ==
    LET g == GVKForObject(o)
    IN  [err |-> g.err,
         ref |-> [APIVersion |-> GroupVersionString(g.gvk), Kind |-> g.gvk.Kind,
                  Namespace |-> o.Namespace, Name |-> o.Name, UID |-> o.UID,
                  ResourceVersion |-> o.ResourceVersion]]

\* parseSelector: the labels read from a field path of the object.
parseSelector(o, path) ==
    IF path \in DOMAIN o.fields
    THEN [err |-> NoError, ml |-> o.fields[path]]
    ELSE [err |-> ErrFieldPath, ml |-> {}]

\* parseLabels: the label template with the object's name and namespace
\* filled in.
parseLabels(o, labels) ==
    {<<l[1], CASE l[2] = "$(primary.name)" -> o.Name
               [] l[2] = "$(primary.namespace)" -> o.Namespace
               [] OTHER -> l[2]>> : l \in labels}

\* Mutant of parseMatchingLabels: no label is asked for.
parseMatchingLabelsNone(o, criteria) == [err |-> NoError, ml |-> {}]

parseMatchingLabels(o, criteria) ==
    IF criteria.SelectorCriteria # Nil
    THEN parseSelector(o, criteria.SelectorCriteria[1].Path)
    ELSE IF criteria.LabelCriteria # Nil
    THEN [err |-> NoError, ml |-> parseLabels(o, criteria.LabelCriteria[1])]
    ELSE [err |-> ErrMatchingLabels, ml |-> {}]

\* The objects cli.List finds for a list of the given kind under the given
\* matching labels.
Listed(gvk, ml) == {id \in Objects : Obj(id).type = gvk /\ ml \subseteq Obj(id).labels}

\* All the orders in which a set can be listed.
Orders(S) == {s \in [1..Cardinality(S) -> S] : \A i, j \in DOMAIN s : s[i] = s[j] => i = j}

\* The outcomes of getObjectsByGVK: the list kind is unknown to the scheme,
\* or cli.List fails, or it returns the matching objects in some order.
getObjectsByGVK(gvk, ml) ==
    IF ListKind(gvk) \notin build.scheme
    THEN {[err |-> ErrNoKind, objects |-> <<>>, listed |-> FALSE]}
    ELSE {[err |-> ErrList, objects |-> <<>>, listed |-> TRUE]}
         \cup {[err |-> NoError, objects |-> s, listed |-> TRUE] : s \in Orders(Listed(gvk, ml))}

\* Mutant of equalGVK: the kinds are compared, group and version are not.
equalKind(gvk, objGVK) == gvk.Kind = objGVK.Kind

\* *gvk == objGVK
equalGVK(gvk, objGVK) == gvk = objGVK

\* The loop that finds the matched rules: the first Primary that cannot be
\* parsed ends it with the error.
RECURSIVE matchRules(_, _, _)
matchRules(rules, objGVK, matched) ==
    IF rules = <<>> THEN [err |-> NoError, rules |-> matched]
    ELSE LET g == objectTypeToGVK(Head(rules).Primary)
         IN  IF g.err # NoError THEN [err |-> g.err, rules |-> <<>>]
             ELSE matchRules(Tail(rules), objGVK,
                             IF equalGVK(g.gvk, objGVK) THEN Append(matched, Head(rules))
                             ELSE matched)

\* The owned resources of a rule list in the order the two nested loops of
\* getSecondaryObjectsOf take them.
RECURSIVE ownedResources(_)
ownedResources(rules) ==
    IF rules = <<>> THEN <<>>
    ELSE [i \in 1..Len(Head(rules).OwnedResources) |-> [rule |-> Head(rules), i |-> i]]
         \o ownedResources(Tail(rules))

RECURSIVE queryLoop(_, _, _, _)

\* Mutant of queryLoop: a failed query counts as an empty result.
queryLoopLenient(o, owned, secondaries, qs) ==
    IF owned = <<>> THEN {[err |-> NoError, secs |-> secondaries, qs |-> qs]}
    ELSE LET res == Head(owned).rule.OwnedResources[Head(owned).i]
             g == objectTypeToGVK(res.Secondary)
             m == parseMatchingLabels(o, res.Criteria)
             q(r) == [rule |-> Head(owned).rule, i |-> Head(owned).i, gvk |-> g.gvk,
                      ml |-> m.ml, err |-> r.err, objects |-> r.objects,
                      listed |-> r.listed]
         IN  IF g.err # NoError THEN {[err |-> g.err, secs |-> <<>>, qs |-> qs]}
             ELSE IF m.err # NoError THEN {[err |-> m.err, secs |-> <<>>, qs |-> qs]}
             ELSE UNION {UNION {queryLoop(o, a[1], a[2], a[3])
                                  : a \in {<<Tail(owned), secondaries \o r.objects,
                                             Append(qs, q(r))>>}}
                            : r \in UNION {getObjectsByGVK(v[1], v[2])
                                             : v \in {<<g.gvk, m.ml>>}}}

\* The loops over the matched rules and their owned resources: every
\* outcome is the error of the first step that fails, or the objects of all
\* the lists one after the other, with the queries that were made.  The
\* arguments of a call are values when the call is made (v, a), as in Go.
queryLoop(o, owned, secondaries, qs) ==
    IF owned = <<>> THEN {[err |-> NoError, secs |-> secondaries, qs |-> qs]}
    ELSE LET res == Head(owned).rule.OwnedResources[Head(owned).i]
             g == objectTypeToGVK(res.Secondary)
             m == parseMatchingLabels(o, res.Criteria)
             q(r) == [rule |-> Head(owned).rule, i |-> Head(owned).i, gvk |-> g.gvk,
                      ml |-> m.ml, err |-> r.err, objects |-> r.objects,
                      listed |-> r.listed]
         IN  IF g.err # NoError THEN {[err |-> g.err, secs |-> <<>>, qs |-> qs]}
             ELSE IF m.err # NoError THEN {[err |-> m.err, secs |-> <<>>, qs |-> qs]}
             ELSE UNION {IF r.err # NoError
                         THEN {[err |-> r.err, secs |-> <<>>, qs |-> Append(qs, q(r))]}
                         ELSE UNION {queryLoop(o, a[1], a[2], a[3])
                                       : a \in {<<Tail(owned), secondaries \o r.objects,
                                                  Append(qs, q(r))>>}}
                            : r \in UNION {getObjectsByGVK(v[1], v[2])
                                             : v \in {<<g.gvk, m.ml>>}}}

getSecondaryObjectsOf(o, ownershipRules) ==
    LET g == GVKForObject(o)
        rules == matchRules(ownershipRules, g.gvk, <<>>)
    IN  IF g.err # NoError THEN {[err |-> g.err, secs |-> <<>>, qs |-> <<>>]}
        ELSE IF rules.err # NoError THEN {[err |-> rules.err, secs |-> <<>>, qs |-> <<>>]}
        ELSE UNION {queryLoop(o, owned, <<>>, <<>>)
                      : owned \in {ownedResources(rules.rules)}}

\* One call of getObjectTreeFromCache up to its loop over the secondaries:
\* the error it returns, or the node and the secondaries to recurse into.
treeCall(id) ==
    LET o == Obj(id)
        reference == getObjectReference(o)
        primaryGVK == GVKForObject(o)
        matchedRules == matchRules(build.rules, primaryGVK.gvk, <<>>)
        fail(err) == [err |-> err, tree |-> Nil, todo |-> <<>>, qs |-> <<>>]
    IN  IF reference.err # NoError THEN {fail(reference.err)}
        ELSE IF primaryGVK.err # NoError THEN {fail(primaryGVK.err)}
        ELSE IF matchedRules.err # NoError THEN {fail(matchedRules.err)}
        ELSE {[err |-> s.err,
               tree |-> IF s.err = NoError
                        THEN Ptr([Primary |-> reference.ref, Secondaries |-> <<>>])
                        ELSE Nil,
               todo |-> s.secs, qs |-> s.qs]
                 : s \in UNION {getSecondaryObjectsOf(o, rules)
                                  : rules \in {matchedRules.rules}}}

\* What a call that was entered leaves: the error returned through all the
\* callers, or a new frame on the stack.
entered(b, id, out) ==
    LET call == [obj |-> id, err |-> out.err, secs |-> out.todo, qs |-> out.qs]
    IN  IF out.err # NoError
        THEN [b EXCEPT !.pc = "TreeFailed", !.stack = <<>>, !.tree = Nil,
                       !.err = out.err, !.calls = Append(@, call)]
        ELSE [b EXCEPT !.pc = "Tree",
                       !.stack = Append(@, [tree |-> out.tree[1], todo |-> out.todo]),
                       !.calls = Append(@, call)]

\* getObjectTreeFromCache is called with the root.
TreeStart ==
    /\ build.pc = "Idle"
    /\ \E out \in treeCall(root) : build' = entered(build, root, out)
    /\ UNCHANGED vars

\* Mutant of TreeCall: an object that is being built further up is skipped.
TreeCallGuarded ==
    /\ build.pc = "Tree"
    /\ build.stack # <<>>
    /\ Len(build.stack) < MaxDepth
    /\ LET top == build.stack[Len(build.stack)]
           popped == [build EXCEPT !.stack[Len(build.stack)].todo = Tail(@)]
       IN  /\ top.todo # <<>>
           /\ IF \E i \in 1..Len(build.stack) :
                    build.stack[i].tree.Primary.Name = Obj(Head(top.todo)).Name
              THEN build' = popped
              ELSE \E out \in treeCall(Head(top.todo)) :
                      build' = entered(popped, Head(top.todo), out)
    /\ UNCHANGED vars

\* The loop over the secondaries calls getObjectTreeFromCache for the next
\* one.
TreeCall ==
    /\ build.pc = "Tree"
    /\ build.stack # <<>>
    /\ Len(build.stack) < MaxDepth
    /\ LET top == build.stack[Len(build.stack)]
           popped == [build EXCEPT !.stack[Len(build.stack)].todo = Tail(@)]
       IN  /\ top.todo # <<>>
           /\ \E out \in treeCall(Head(top.todo)) :
                 build' = entered(popped, Head(top.todo), out)
    /\ UNCHANGED vars

\* Mutant of TreeReturn: the subtree is put in front of the node's
\* secondaries.
TreeReturnInFront ==
    /\ build.pc = "Tree"
    /\ build.stack # <<>>
    /\ LET n == Len(build.stack)
           top == build.stack[n]
       IN  /\ top.todo = <<>>
           /\ build' = IF n = 1
                       THEN [build EXCEPT !.pc = "TreeDone", !.stack = <<>>,
                                          !.tree = Ptr(top.tree)]
                       ELSE [build EXCEPT
                               !.stack = [SubSeq(@, 1, n - 1) EXCEPT
                                   ![n - 1].tree.Secondaries = <<top.tree>> \o @]]
    /\ UNCHANGED vars

\* The loop over the secondaries is over: the call returns its tree, to the
\* caller that appends it to its node's secondaries, or as the result.
TreeReturn ==
    /\ build.pc = "Tree"
    /\ build.stack # <<>>
    /\ LET n == Len(build.stack)
           top == build.stack[n]
       IN  /\ top.todo = <<>>
           /\ build' = IF n = 1
                       THEN [build EXCEPT !.pc = "TreeDone", !.stack = <<>>,
                                          !.tree = Ptr(top.tree)]
                       ELSE [build EXCEPT
                               !.stack = [SubSeq(@, 1, n - 1) EXCEPT
                                   ![n - 1].tree.Secondaries = Append(@, top.tree)]]
    /\ UNCHANGED vars

\* getObjectsFromCache is called with the root, on a fresh cache or after a
\* tree was built from it.
CollectStart ==
    /\ build.pc \in {"Idle", "TreeDone"}
    /\ build' = [build EXCEPT !.pc = "Collect", !.calls = <<>>,
                              !.waitingList = <<root>>,
                              !.objectSet = Ptr({}), !.objectMap = Ptr(<<>>)]
    /\ UNCHANGED vars

\* Mutant of put: the map is left as it is.
putNothing(objectMap, key, obj) == objectMap

\* objectMap[key] = obj
put(objectMap, key, obj) ==
    [k \in DOMAIN objectMap \cup {key} |-> IF k = key THEN obj ELSE objectMap[k]]

\* Mutant of CollectStep: only the first secondary is put on the waiting
\* list.
CollectStepFirstOnly ==
    /\ build.pc = "Collect"
    /\ build.waitingList # <<>>
    /\ Len(build.calls) < MaxExpand
    /\ LET id == Head(build.waitingList)
           objKey == getObjectRef(Obj(id))
           fail(err, qs) ==
               [build EXCEPT !.pc = "CollectFailed", !.waitingList = <<>>,
                             !.objectSet = Nil, !.objectMap = Nil, !.err = err,
                             !.calls = Append(@, [obj |-> id, err |-> err,
                                                  secs |-> <<>>, qs |-> qs])]
       IN  IF objKey.err # NoError THEN build' = fail(objKey.err, <<>>)
           ELSE \E s \in getSecondaryObjectsOf(Obj(id), build.rules) :
                   build' = IF s.err # NoError THEN fail(s.err, s.qs)
                            ELSE [build EXCEPT
                                    !.waitingList = Tail(@) \o (IF s.secs = <<>> THEN <<>>
                                                               ELSE <<Head(s.secs)>>),
                                    !.objectSet = Ptr(@[1] \cup {objKey.key}),
                                    !.objectMap = Ptr(put(@[1], objKey.key, id)),
                                    !.calls = Append(@, [obj |-> id, err |-> NoError,
                                                         secs |-> s.secs, qs |-> s.qs])]
    /\ UNCHANGED vars

\* One turn of the loop over the waiting list.
CollectStep ==
    /\ build.pc = "Collect"
    /\ build.waitingList # <<>>
    /\ Len(build.calls) < MaxExpand
    /\ LET id == Head(build.waitingList)
           objKey == getObjectRef(Obj(id))
           fail(err, qs) ==
               [build EXCEPT !.pc = "CollectFailed", !.waitingList = <<>>,
                             !.objectSet = Nil, !.objectMap = Nil, !.err = err,
                             !.calls = Append(@, [obj |-> id, err |-> err,
                                                  secs |-> <<>>, qs |-> qs])]
       IN  IF objKey.err # NoError THEN build' = fail(objKey.err, <<>>)
           ELSE \E s \in getSecondaryObjectsOf(Obj(id), build.rules) :
                   build' = IF s.err # NoError THEN fail(s.err, s.qs)
                            ELSE [build EXCEPT
                                    !.waitingList = Tail(@) \o s.secs,
                                    !.objectSet = Ptr(@[1] \cup {objKey.key}),
                                    !.objectMap = Ptr(put(@[1], objKey.key, id)),
                                    !.calls = Append(@, [obj |-> id, err |-> NoError,
                                                         secs |-> s.secs, qs |-> s.qs])]
    /\ UNCHANGED vars

\* Mutant of CollectReturn: the root is put on the waiting list again.
CollectReturnAgain ==
    /\ build.pc = "Collect"
    /\ build.waitingList = <<>>
    /\ build' = [build EXCEPT !.waitingList = <<root>>]
    /\ UNCHANGED vars

\* The waiting list is empty: the set and the map are returned.
CollectReturn ==
    /\ build.pc = "Collect"
    /\ build.waitingList = <<>>
    /\ build' = [build EXCEPT !.pc = "CollectDone"]
    /\ UNCHANGED vars

InitView ==
    /\ NewDAG
    /\ build \in {IdleBuild(rules, scheme) : rules \in RuleLists, scheme \in Schemes}

NextView ==
    \/ TreeStart
    \/ TreeCall
    \/ TreeReturn
    \/ CollectStart
    \/ CollectStep
    \/ CollectReturn

SpecView == InitView /\ [][NextView]_<<vars, build>>

\* A call that has been made runs on: the builders are sequential code
\* without a blocking step of their own.  Whether a builder is called at
\* all is up to the caller, so the two starts carry no fairness.
SpecViewFair ==
    /\ SpecView
    /\ WF_build(TreeCall) /\ WF_build(TreeReturn)
    /\ WF_build(CollectStep) /\ WF_build(CollectReturn)

----------------------------------------------------------------------------
\* What the properties below say of a graph, stated on the stored edges
\* and not through validate() or topologicalOrder().

\* The transitive closure of a set of pairs.
RECURSIVE Closure(_)
Closure(R) ==
    LET step == R \cup {<<x[1][1], x[2][2]>> : x \in {y \in R \X R : y[1][2] = y[2][1]}}
    IN  IF step = R THEN R ELSE Closure(step)

EdgePairs(E) == {<<From(e), To(e)>> : e \in E}

\* A directed cycle through at least two different vertices, along edges of E.
CycleIn(E) ==
    LET reach == Closure(EdgePairs({e \in E : From(e) # To(e)}))
    IN  \E p \in reach : p[1] # p[2] /\ <<p[2], p[1]>> \in reach

SelfLoop == \E e \in edges : From(e) = To(e)
ZeroInDegree == {v \in vertices : \A e \in edges : To(e) # v}
EndpointsAdded == \A e \in edges : From(e) \in vertices /\ To(e) \in vertices
ValidDAG == Cardinality(ZeroInDegree) = 1 /\ ~SelfLoop /\ ~CycleIn(edges)

IsWalk == last.op \in {"WalkTopoOrder", "WalkReverseTopoOrder"}
Pos(seq, x) == CHOOSE i \in 1..Len(seq) : seq[i] = x
OncePerVertex(calls) == Len(calls) = Cardinality(vertices) /\ Range(calls) = vertices

----------------------------------------------------------------------------
\* C1: on a DAG with exactly one zero-in-degree vertex, no self-loop and no
\* cycle, all of whose edge endpoints were added as vertices, WalkTopoOrder
\* with a walkFunc that never fails returns no error, invokes walkFunc
\* exactly once for every vertex and, for every stored edge u->v, invokes it
\* on u before v, whatever the iteration order of the two maps.
C1_WalkTopoOrder ==
    (last.op = "WalkTopoOrder" /\ last.failAt = 0 /\ ValidDAG /\ EndpointsAdded)
        => /\ last.err = NoErr
           /\ OncePerVertex(last.calls)
           /\ \A e \in edges : Pos(last.calls, From(e)) < Pos(last.calls, To(e))

\* A walk of R->A, R->B, A->B: B has two producers and A, B are both below R.
C1_Witness ==
    /\ last.op = "WalkTopoOrder" /\ last.failAt = 0
    /\ ValidDAG /\ EndpointsAdded
    /\ EdgePairs(edges) = {<<"R", "A">>, <<"R", "B">>, <<"A", "B">>}
    /\ last.calls = <<"R", "A", "B">>

\* C2: on the same DAGs WalkReverseTopoOrder returns no error, invokes
\* walkFunc exactly once for every vertex and, for every stored edge u->v,
\* invokes it on u after v.
C2_WalkReverseTopoOrder ==
    (last.op = "WalkReverseTopoOrder" /\ last.failAt = 0 /\ ValidDAG /\ EndpointsAdded)
        => /\ last.err = NoErr
           /\ OncePerVertex(last.calls)
           /\ \A e \in edges : Pos(last.calls, From(e)) > Pos(last.calls, To(e))

C2_Witness ==
    /\ last.op = "WalkReverseTopoOrder" /\ last.failAt = 0
    /\ ValidDAG /\ EndpointsAdded
    /\ EdgePairs(edges) = {<<"R", "A">>, <<"R", "B">>, <<"A", "B">>}
    /\ last.calls = <<"B", "A", "R">>

\* C3: when walkFunc returns an error on its k-th invocation during a walk
\* of a valid DAG of n >= k vertices, the walk returns that error and
\* walkFunc has been invoked exactly k times: the other vertices are never
\* visited.
C3_StopAtFirstError ==
    (IsWalk /\ ValidDAG /\ last.failAt >= 1 /\ last.failAt <= Cardinality(vertices))
        => /\ last.err = ErrFn
           /\ Len(last.calls) = last.failAt

\* walkFunc fails on the second vertex of the chain R->A->B: B is never visited.
C3_Witness ==
    /\ last.op = "WalkTopoOrder" /\ last.failAt = 2
    /\ vertices = Vertex
    /\ EdgePairs(edges) = {<<"R", "A">>, <<"A", "B">>}
    /\ last.err = ErrFn
    /\ last.calls = <<"R", "A">>

\* C4: whenever validate() fails, a walk returns the error of validate()
\* and walkFunc is not invoked at all.
C4_NoPartialWalk ==
    (IsWalk /\ NoErr \notin validate)
        => /\ last.err \in validate
           /\ last.calls = <<>>

\* A walk of A->B, B->A, which has no root, is refused and visits nothing.
C4_Witness ==
    /\ IsWalk /\ last.failAt = 0
    /\ vertices = {"A", "B"}
    /\ EdgePairs(edges) = {<<"A", "B">>, <<"B", "A">>}
    /\ last.err = ErrNoRoot
    /\ last.calls = <<>>

\* The stored edges both of whose endpoints are in the vertex set.
InnerEdges == {e \in edges : From(e) \in vertices /\ To(e) \in vertices}

\* C5: validate() rejects every graph whose stored edges hold a directed
\* cycle of length >= 2 among its vertices, also a cycle that hangs below a
\* single root; a walk of such a graph returns an error.
C5_RejectsCycle ==
    CycleIn(InnerEdges)
        => /\ NoErr \notin validate
           /\ IsWalk => last.err # NoErr

\* R->A, A->B, B->A has the single root R and is refused for its cycle.
C5_Witness ==
    /\ last.op = "WalkTopoOrder"
    /\ vertices = Vertex
    /\ EdgePairs(edges) = {<<"R", "A">>, <<"A", "B">>, <<"B", "A">>}
    /\ ZeroInDegree = {"R"}
    /\ last.err = ErrCycle

\* C6: validate() rejects every graph that holds a stored edge from a vertex
\* to itself, also when exactly one vertex has zero in-degree; a walk of such
\* a graph returns an error.
C6_RejectsSelfLoop ==
    SelfLoop
        => /\ NoErr \notin validate
           /\ IsWalk => last.err # NoErr

\* R->A, A->A has the single root R and is refused for the self-loop on A.
C6_Witness ==
    /\ IsWalk
    /\ vertices = {"R", "A"}
    /\ EdgePairs(edges) = {<<"R", "A">>, <<"A", "A">>}
    /\ ZeroInDegree = {"R"}
    /\ last.err = ErrSelfCycle("A")

\* C7: validate() fails its root check exactly when the number of vertices
\* without an incoming edge is not one (zero, or two and more), and then it
\* rejects the graph.
C7_SingleRoot ==
    /\ (Cardinality(ZeroInDegree) # 1) <=> (ErrNoRoot \in validate)
    /\ (Cardinality(ZeroInDegree) # 1) => validate = {ErrNoRoot}
    /\ (IsWalk /\ Cardinality(ZeroInDegree) # 1) => last.err = ErrNoRoot

\* R->A with B beside it: R and B both have no incoming edge.
C7_Witness ==
    /\ IsWalk
    /\ vertices = Vertex
    /\ EdgePairs(edges) = {<<"R", "A">>}
    /\ ZeroInDegree = {"R", "B"}
    /\ last.err = ErrNoRoot

\* The stored edges from `from` to `to`.
Stored(from, to) == {k \in edges : From(k) = from /\ To(k) = to}

\* C8: in every state reachable from NewDAG by AddVertex, RemoveVertex,
\* AddEdge, Connect and RemoveEdge no two stored edges have the same
\* endpoints; a Connect or an AddEdge with non-nil endpoints returns true and
\* leaves exactly one stored edge of its endpoints, also when the pair was
\* stored before or the edge passed is another instance than the stored one.
C8_EdgesDeduplicated ==
    /\ \A from \in Vertex, to \in Vertex : Cardinality(Stored(from, to)) <= 1
    /\ (last.op = "Connect" /\ last.from # nil /\ last.to # nil)
          => last.ret /\ Cardinality(Stored(last.from, last.to)) = 1
    /\ (last.op = "AddEdge" /\ From(last.e) # nil /\ To(last.e) # nil)
          => last.ret /\ Cardinality(Stored(From(last.e), To(last.e))) = 1

\* Connect(A, B) on a store that held A->B already.
C8_Witness ==
    /\ last.op = "Connect" /\ last.from = "A" /\ last.to = "B"
    /\ last.had /\ last.ret
    /\ Cardinality(Stored("A", "B")) = 1

\* C9: RemoveVertex(v) with v not nil leaves v out of the vertex set and no
\* stored edge from or to v, and changes nothing else: the other vertices
\* and the edges that do not touch v stay as they were.
C9_RemoveVertexFrame ==
    [][(last'.op = "RemoveVertex" /\ last'.v # nil)
          => /\ last'.v \notin vertices'
             /\ \A e \in edges' : From(e) # last'.v /\ To(e) # last'.v
             /\ vertices' = vertices \ {last'.v}
             /\ edges' = {e \in edges : From(e) # last'.v /\ To(e) # last'.v}]_vars

\* A vertex was removed with edges of its own, and other vertices and edges stay.
C9_Witness ==
    /\ last.op = "RemoveVertex" /\ last.had /\ last.cut >= 2
    /\ last.v \notin vertices
    /\ vertices # {} /\ edges # {}

\* C10 as claimed: after RemoveVertex(v), if exactly one zero-in-degree
\* vertex remains, WalkTopoOrder returns no error and visits every remaining
\* vertex.
C10_Original ==
    (last.op = "WalkTopoOrder" /\ last.failAt = 0 /\ last.removed # nil
        /\ Cardinality(ZeroInDegree) = 1)
        => /\ last.err = NoErr
           /\ vertices \subseteq Range(last.calls)

\* C10 as amended: after RemoveVertex(v), if exactly one zero-in-degree
\* vertex remains and the stored edges hold no self-loop and no cycle,
\* WalkTopoOrder returns no error and visits every remaining vertex.
C10_Amended ==
    (last.op = "WalkTopoOrder" /\ last.failAt = 0 /\ last.removed # nil /\ ValidDAG)
        => /\ last.err = NoErr
           /\ vertices \subseteq Range(last.calls)

\* B was removed from R->A, and the walk of what is left visits R, then A.
C10_Witness ==
    /\ last.op = "WalkTopoOrder" /\ last.failAt = 0 /\ last.removed = "B"
    /\ ValidDAG
    /\ EdgePairs(edges) = {<<"R", "A">>}
    /\ last.err = NoErr
    /\ last.calls = <<"R", "A">>

\* C11: Root() returns the one vertex without incoming edge when there is
\* exactly one, and nil (not found) when the vertex set is empty, when no
\* vertex is free of incoming edges, and when more than one is.
C11_Root ==
    /\ Root \in VertexOrNil
    /\ Root = IF Cardinality(ZeroInDegree) = 1
              THEN CHOOSE v \in ZeroInDegree : TRUE
              ELSE nil
    /\ last.op = "Root" => last.ret = Root
    /\ (last.op = "Root" /\ (vertices = {} \/ ZeroInDegree = {}
                              \/ Cardinality(ZeroInDegree) > 1))
           => last.ret = nil

\* Root() was called on R->A, R->B and returned R.
C11_Witness ==
    /\ last.op = "Root" /\ last.ret = "R"
    /\ vertices = Vertex
    /\ EdgePairs(edges) = {<<"R", "A">>, <<"R", "B">>}

\* The nodes of a tree, every node before its secondaries.
RECURSIVE Preorder(_), PreorderAll(_)
Preorder(t) == <<t>> \o PreorderAll(t.Secondaries)
PreorderAll(ts) == IF ts = <<>> THEN <<>> ELSE Preorder(Head(ts)) \o PreorderAll(Tail(ts))

\* The sequences of a sequence, one after the other.
RECURSIVE Flat(_)
Flat(ss) == IF ss = <<>> THEN <<>> ELSE Head(ss) \o Flat(Tail(ss))

\* The objects the queries of a call returned, in the order of the queries.
Returned(call) == Flat([j \in DOMAIN call.qs |-> call.qs[j].objects])

\* Kind and name of the object a reference points to, and of a stored object.
RefName(ref) == <<ref.Kind, ref.Name>>
ObjName(id) == <<Obj(id).type.Kind, Obj(id).Name>>

\* The identity a reference stands for.
RefKey(ref) ==
    LET gv == ParseGroupVersion(ref.APIVersion)
    IN  [GroupVersionKind |-> [Group |-> gv.Group, Version |-> gv.Version, Kind |-> ref.Kind],
         ObjectKey |-> [Namespace |-> ref.Namespace, Name |-> ref.Name]]

\* The rules of the fixture: the Cluster owns Pods by app=X, a Pod owns
\* ConfigMaps by owner=<pod-name>.
Fixture == <<rClusterPods, rPodConfigMaps>>

\* C12: the tree getObjectTreeFromCache returns has the reference of the
\* given object as its root Primary, and the Secondaries of every node are,
\* in order, the subtrees of the objects that the queries made for that node
\* returned; on the fixture the root is the Cluster, it has exactly two Pod
\* children, and each Pod has exactly one ConfigMap child without children.
C12_Tree ==
    build.pc = "TreeDone" =>
        LET t == build.tree[1]
            nodes == Preorder(t)
            calls == build.calls
        IN  /\ t.Primary = [APIVersion |-> AppsV1, Kind |-> "Cluster", Namespace |-> "ns",
                            Name |-> "c", UID |-> "uid-c", ResourceVersion |-> "1"]
            /\ Len(nodes) = Len(calls)
            /\ \A i \in DOMAIN nodes :
                  /\ RefName(nodes[i].Primary) = ObjName(calls[i].obj)
                  /\ calls[i].secs = Returned(calls[i])
                  /\ [j \in DOMAIN nodes[i].Secondaries |->
                         RefName(nodes[i].Secondaries[j].Primary)]
                        = [j \in DOMAIN calls[i].secs |-> ObjName(calls[i].secs[j])]
            /\ build.rules = Fixture =>
                  /\ Len(t.Secondaries) = 2
                  /\ {RefName(t.Secondaries[j].Primary) : j \in 1..2}
                        = {<<"Pod", "p1">>, <<"Pod", "p2">>}
                  /\ \A j \in 1..2 :
                        /\ Len(t.Secondaries[j].Secondaries) = 1
                        /\ RefName(t.Secondaries[j].Secondaries[1].Primary)
                              = <<"ConfigMap",
                                  IF t.Secondaries[j].Primary.Name = "p1" THEN "m1" ELSE "m2">>
                        /\ t.Secondaries[j].Secondaries[1].Secondaries = <<>>

\* The tree of the fixture was returned, the Pod p2 listed before p1.
C12_Witness ==
    /\ build.pc = "TreeDone"
    /\ build.rules = Fixture
    /\ Len(Preorder(build.tree[1])) = 5
    /\ build.tree[1].Secondaries[1].Primary.Name = "p2"
    /\ build.tree[1].Secondaries[2].Primary.Name = "p1"

\* The rule lists that hold the fixture's rules, possibly with the rule that
\* matches the Pods and a ConfigMap of the Cluster a second time.
OnFixture == {rClusterPods, rPodConfigMaps} \subseteq Range(build.rules)
                /\ Range(build.rules) \subseteq {rClusterPods, rPodConfigMaps, rClusterBoth}

FixtureKeys ==
    {[GroupVersionKind |-> ClusterGVK, ObjectKey |-> [Namespace |-> "ns", Name |-> "c"]],
     [GroupVersionKind |-> PodGVK, ObjectKey |-> [Namespace |-> "ns", Name |-> "p1"]],
     [GroupVersionKind |-> PodGVK, ObjectKey |-> [Namespace |-> "ns", Name |-> "p2"]],
     [GroupVersionKind |-> ConfigMapGVK, ObjectKey |-> [Namespace |-> "ns", Name |-> "m1"]],
     [GroupVersionKind |-> ConfigMapGVK, ObjectKey |-> [Namespace |-> "ns", Name |-> "m2"]]}

\* C13 as claimed: on the fixture getObjectsFromCache returns an identity
\* set of 4 elements, each object once.
C13_Original ==
    (build.pc = "CollectDone" /\ OnFixture)
        => Cardinality(build.objectSet[1]) = 4

\* C13 as amended: on the fixture getObjectsFromCache returns the identity
\* set of 5 elements (the Cluster, the 2 Pods, the 2 ConfigMaps), each object
\* once, also when two rules match the same object.
C13_Amended ==
    (build.pc = "CollectDone" /\ OnFixture)
        => /\ Cardinality(build.objectSet[1]) = 5
           /\ build.objectSet[1] = FixtureKeys
           /\ DOMAIN build.objectMap[1] = FixtureKeys
           /\ \A k1, k2 \in FixtureKeys :
                 build.objectMap[1][k1] = build.objectMap[1][k2] => k1 = k2
           /\ \A k \in FixtureKeys :
                 ObjName(build.objectMap[1][k]) = <<k.GroupVersionKind.Kind, k.ObjectKey.Name>>

\* The set was returned under the fixture's rules and the third rule, after
\* two queries for the Cluster had both returned the Pod p1.
C13_Witness ==
    /\ build.pc = "CollectDone"
    /\ build.rules = <<rClusterPods, rPodConfigMaps, rClusterBoth>>
    /\ Cardinality({j \in DOMAIN build.calls[1].secs : build.calls[1].secs[j] = "p1"}) = 2
    /\ Cardinality(build.objectSet[1]) = 5

\* C14: for the same root, rules and store, when both builds succeed, the
\* identity set of getObjectsFromCache is the set of the identities of the
\* nodes of the tree of getObjectTreeFromCache, also when an object is
\* reached on more than one path.
C14_SameReachableSet ==
    (build.pc = "CollectDone" /\ build.tree # Nil)
        => build.objectSet[1]
              = {RefKey(Preorder(build.tree[1])[i].Primary)
                    : i \in DOMAIN Preorder(build.tree[1])}

\* Both builds succeeded on rules under which the ConfigMap m1 is owned by
\* the Cluster and by the Pod p1: it is two nodes of the tree and one
\* element of the set.
C14_Witness ==
    /\ build.pc = "CollectDone" /\ build.tree # Nil
    /\ build.rules = <<rClusterPods, rPodConfigMaps, rClusterBoth>>
    /\ Cardinality({i \in DOMAIN Preorder(build.tree[1]) :
                        Preorder(build.tree[1])[i].Primary.Name = "m1"}) >= 2
    /\ Cardinality(build.objectSet[1]) = 5

\* C15: in both builds the first step that fails (the type of an object is
\* not registered, the Primary or Secondary type of a rule does not parse,
\* the criteria do not resolve, a query fails) ends the build in Failed: the
\* error returned is that of the step, the tree, the set and the map
\* returned are nil, no query is made after the step, and the build does not
\* go on to Done.
C15_FirstFailure ==
    /\ [](LET calls == build.calls
              failed == build.pc \in {"TreeFailed", "CollectFailed"}
          IN  /\ \A i \in DOMAIN calls :
                    /\ \A j \in DOMAIN calls[i].qs :
                          calls[i].qs[j].err # NoError
                              => j = Len(calls[i].qs) /\ calls[i].err = calls[i].qs[j].err
                    /\ calls[i].err # NoError
                          => i = Len(calls) /\ failed /\ build.err = calls[i].err
                    /\ Obj(calls[i].obj).type \notin build.scheme
                          => calls[i].err = ErrNoKind /\ calls[i].qs = <<>>
                    /\ (Obj(calls[i].obj).type \in build.scheme
                            /\ rBadPrimary \in Range(build.rules))
                          => calls[i].err = ErrGroupVersion /\ calls[i].qs = <<>>
              /\ failed => /\ calls # <<>> /\ calls[Len(calls)].err # NoError
                           /\ build.err # NoError
                           /\ build.stack = <<>> /\ build.waitingList = <<>>
              /\ build.pc = "TreeFailed" => build.tree = Nil
              /\ build.pc = "CollectFailed"
                    => build.objectSet = Nil /\ build.objectMap = Nil)
    /\ [][build.pc \in {"TreeFailed", "CollectFailed"} => build' = build]_build

\* getObjectsFromCache failed on the query of the second object it took from
\* the waiting list, after the queries of the Cluster had succeeded.
C15_Witness ==
    /\ build.pc = "CollectFailed"
    /\ build.err = ErrList
    /\ Len(build.calls) = 2
    /\ build.calls[1].secs # <<>>
    /\ build.calls[2].qs # <<>>
    /\ build.objectSet = Nil /\ build.objectMap = Nil

\* C16: AddVertex(v) with v not nil returns true at every call, and the
\* state after any number of calls is the state after one call: the vertex
\* set holds v once, a repeated call leaves it as it is, edges are untouched.
C16_AddVertexIdempotent ==
    [][(last'.op = "AddVertex" /\ last'.v # nil)
          => /\ last'.ret
             /\ vertices' = vertices \cup {last'.v}
             /\ edges' = edges
             /\ (last'.had => vertices' = vertices)]_vars

\* AddVertex was called for a vertex already stored, in a graph with edges.
C16_Witness ==
    /\ last.op = "AddVertex" /\ last.v = "A" /\ last.had /\ last.ret
    /\ "A" \in vertices
    /\ edges # {}

\* C17: a nil argument never changes the graph: AddVertex(nil) returns false,
\* Connect and AddEdge with a nil endpoint return false, RemoveVertex(nil)
\* has no effect; vertices and edges are as before the call.
C17_NilInputs ==
    [][/\ (last'.op = "AddVertex" /\ last'.v = nil)
            => ~last'.ret /\ vertices' = vertices /\ edges' = edges
       /\ (last'.op = "Connect" /\ (last'.from = nil \/ last'.to = nil))
            => ~last'.ret /\ vertices' = vertices /\ edges' = edges
       /\ (last'.op = "AddEdge" /\ (From(last'.e) = nil \/ To(last'.e) = nil))
            => ~last'.ret /\ vertices' = vertices /\ edges' = edges
       /\ (last'.op = "RemoveVertex" /\ last'.v = nil)
            => vertices' = vertices /\ edges' = edges]_vars

\* Connect(A, nil) was refused on a graph that holds vertices and edges.
C17_Witness ==
    /\ last.op = "Connect" /\ last.from = "A" /\ last.to = nil /\ ~last.ret
    /\ vertices # {} /\ edges # {}
    /\ \A k \in edges : From(k) # nil /\ To(k) # nil

\* C18: RemoveEdge(e) deletes every stored edge with e's (From, To) pair,
\* whether or not e is the stored instance; the vertex set and the edges of
\* any other pair, the opposite direction included, stay; removing an
\* absent pair changes nothing.
C18_RemoveEdge ==
    [][last'.op = "RemoveEdge"
          => /\ last'.ret
             /\ vertices' = vertices
             /\ edges' = {k \in edges : <<From(k), To(k)>> # <<From(last'.e), To(last'.e)>>}
             /\ (~HasEdge(From(last'.e), To(last'.e)) => edges' = edges)]_vars

\* RemoveEdge was given a fresh instance of the stored pair A->B: the stored
\* edge is gone and B->A is still there.
C18_Witness ==
    /\ last.op = "RemoveEdge" /\ ~last.held /\ last.cut = 1
    /\ From(last.e) = "A" /\ To(last.e) = "B"
    /\ ~HasEdge("A", "B") /\ HasEdge("B", "A")

\* The Primary type of a rule names the type of an object: group, version
\* and kind are the same.
PrimaryIs(rule, gvk) ==
    LET gv == ParseGroupVersion(rule.Primary.APIVersion)
    IN  /\ gv.err = NoError
        /\ gv.Group = gvk.Group
        /\ gv.Version = gvk.Version
        /\ rule.Primary.Kind = gvk.Kind

\* The objects the rules make an object own.
Owned(id) ==
    UNION {UNION {LET g == objectTypeToGVK(r.OwnedResources[k].Secondary)
                      m == parseMatchingLabels(Obj(id), r.OwnedResources[k].Criteria)
                  IN  IF PrimaryIs(r, Obj(id).type) /\ g.err = NoError /\ m.err = NoError
                      THEN Listed(g.gvk, m.ml)
                      ELSE {}
                     : k \in DOMAIN r.OwnedResources}
              : r \in Range(build.rules)}

\* The objects of S and all they own, directly or not.
RECURSIVE Descendants(_)
Descendants(S) ==
    LET more == S \cup UNION {Owned(id) : id \in S}
    IN  IF more = S THEN S ELSE Descendants(more)

\* The root owns, directly or not, an object that owns itself again.
CyclicOwnership ==
    \E x \in Descendants({root}) : x \in Descendants(Owned(x))

InTreeBuild == build.pc \in {"Tree", "TreeDone", "TreeFailed"}

\* C19 as claimed: when rules and store form an ownership cycle,
\* getObjectTreeFromCache never returns, neither a tree nor an error.
C19_Original ==
    (CyclicOwnership /\ InTreeBuild) => build.pc = "Tree"

\* C19 as amended: when rules and store form an ownership cycle,
\* getObjectTreeFromCache never returns a tree, and as long as no lookup and
\* no query fails it returns no error either: it goes on recursing.
C19_Amended ==
    (CyclicOwnership /\ InTreeBuild)
        => /\ build.pc # "TreeDone"
           /\ (\A i \in DOMAIN build.calls : build.calls[i].err = NoError)
                 => build.pc = "Tree"

\* The recursion is MaxDepth calls deep and the Cluster is on the stack more
\* than once.
C19_Witness ==
    /\ CyclicOwnership
    /\ build.pc = "Tree"
    /\ Len(build.stack) = MaxDepth
    /\ Cardinality({i \in DOMAIN build.stack : build.stack[i].tree.Primary.Name = "c"}) >= 2
    /\ \A i \in DOMAIN build.calls : build.calls[i].err = NoError

\* The rules of the list whose Primary names the type, in the list's order.
RECURSIVE RulesFor(_, _)
RulesFor(rules, gvk) ==
    IF rules = <<>> THEN <<>>
    ELSE (IF PrimaryIs(Head(rules), gvk) THEN <<Head(rules)>> ELSE <<>>)
         \o RulesFor(Tail(rules), gvk)

\* C20: for every object a build has processed, the secondaries found are
\* the results of the queries of the rules whose Primary equals the object's
\* type in group, version and kind; a rule that differs in one of the three
\* makes no query, and an object no rule matches has no secondaries.
C20_ExactTypeMatch ==
    \A i \in DOMAIN build.calls :
        LET call == build.calls[i]
            owned == ownedResources(RulesFor(build.rules, Obj(call.obj).type))
            asked == [j \in DOMAIN call.qs |-> [rule |-> call.qs[j].rule, i |-> call.qs[j].i]]
        IN  /\ Len(asked) <= Len(owned)
            /\ asked = SubSeq(owned, 1, Len(asked))
            /\ \A j \in DOMAIN call.qs : PrimaryIs(call.qs[j].rule, Obj(call.obj).type)
            /\ call.err = NoError => /\ asked = owned
                                     /\ call.secs = Returned(call)
            /\ owned = <<>> => call.qs = <<>> /\ call.secs = <<>>

\* The Cluster was processed under a rule for it and a rule for the Cluster
\* kind of another version: only the first made a query; the Pods it returned
\* are matched by no rule and have no secondaries.
C20_Witness ==
    /\ build.pc \in {"TreeDone", "CollectDone"}
    /\ build.rules = <<rClusterPods, rOtherVersion, rOtherGroup>>
    /\ Len(build.calls) = 3
    /\ Len(build.calls[1].qs) = 1
    /\ build.calls[1].qs[1].rule = rClusterPods
    /\ Len(build.calls[1].secs) = 2
    /\ build.calls[2].qs = <<>> /\ build.calls[2].secs = <<>>

\* C21: validate() checks for the single root first, then for a self-loop,
\* then for a cycle, and returns the error of the first check that fails: a
\* graph without a single root gets the root error also when it holds a
\* self-loop or a cycle, and a graph with a single root, a self-loop and a
\* longer cycle gets the self-loop error.
C21_ValidateOrder ==
    /\ (Cardinality(ZeroInDegree) # 1 /\ (SelfLoop \/ CycleIn(edges)))
          => /\ validate = {ErrNoRoot}
             /\ IsWalk => last.err = ErrNoRoot /\ last.calls = <<>>
    /\ (Cardinality(ZeroInDegree) = 1 /\ SelfLoop)
          => /\ validate = {ErrSelfCycle(From(e)) : e \in {k \in edges : From(k) = To(k)}}
             /\ ErrCycle \notin validate
             /\ IsWalk => last.err \in validate /\ last.calls = <<>>
    /\ (Cardinality(ZeroInDegree) = 1 /\ ~SelfLoop /\ CycleIn(InnerEdges))
          => validate = {ErrCycle}

\* R is the single root beside the cycle A->B, B->A and the self-loop on A:
\* the walk is refused for the self-loop.
C21_Witness ==
    /\ IsWalk
    /\ vertices = Vertex
    /\ EdgePairs(edges) = {<<"A", "B">>, <<"B", "A">>, <<"A", "A">>}
    /\ ZeroInDegree = {"R"}
    /\ last.err = ErrSelfCycle("A")

\* The vertices a path of stored edges leads from and to.
Paths == Closure(EdgePairs(edges))

\* C24 as claimed: two walks of the same kind of the same unmodified valid
\* DAG invoke fn on the vertices in the same sequence.
C24_Original ==
    (IsWalk /\ last.before # <<>> /\ last.err = NoErr)
        => last.calls = last.before[1]

\* C24 as amended: two walks of the same kind of the same unmodified valid
\* DAG invoke fn on the same vertices, once each, and in the same relative
\* order for every two vertices that a path of edges connects; vertices that
\* no path connects may come in either order.
C24_Amended ==
    (IsWalk /\ last.before # <<>> /\ last.err = NoErr)
        => /\ Len(last.calls) = Len(last.before[1])
           /\ Range(last.calls) = Range(last.before[1])
           /\ \A p \in Paths :
                 (p[1] \in Range(last.calls) /\ p[2] \in Range(last.calls))
                     => ((Pos(last.calls, p[1]) < Pos(last.calls, p[2]))
                            <=> (Pos(last.before[1], p[1]) < Pos(last.before[1], p[2])))

\* R->A, R->B was walked twice, without a change in between: once A came
\* before B, once B before A, R first both times.
C24_Witness ==
    /\ last.op = "WalkTopoOrder" /\ last.err = NoErr
    /\ vertices = Vertex
    /\ EdgePairs(edges) = {<<"R", "A">>, <<"R", "B">>}
    /\ last.before = <<(<<"R", "A", "B">>)>>
    /\ last.calls = <<"R", "B", "A">>

InCollect == build.pc \in {"Collect", "CollectDone", "CollectFailed"}

\* The identity of a stored object.
Identity(id) ==
    [GroupVersionKind |-> Obj(id).type,
     ObjectKey |-> [Namespace |-> Obj(id).Namespace, Name |-> Obj(id).Name]]

\* C22 as claimed: getObjectsFromCache puts a secondary on the waiting list
\* only when its identity is not yet known, so that within one build every
\* object is taken from the list and expanded at most once, also when more
\* than one query returns it.
C22_Original ==
    InCollect
        => /\ \A i, j \in DOMAIN build.calls :
                 build.calls[i].obj = build.calls[j].obj => i = j
           /\ \A i, j \in DOMAIN build.waitingList :
                 build.waitingList[i] = build.waitingList[j] => i = j

\* A type string names a type: group, version and kind are the same.
NamesType(objectType, gvk) ==
    LET gv == ParseGroupVersion(objectType.APIVersion)
    IN  /\ gv.err = NoError
        /\ gv.Group = gvk.Group
        /\ gv.Version = gvk.Version
        /\ objectType.Kind = gvk.Kind

\* The label selector the criteria give for an object: the labels under the
\* field path, or the label template with the object's name and namespace.
Derived(id, criteria) ==
    IF criteria.SelectorCriteria # Nil
    THEN Obj(id).fields[criteria.SelectorCriteria[1].Path]
    ELSE {<<l[1], IF l[2] = "$(primary.name)" THEN Obj(id).Name
                  ELSE IF l[2] = "$(primary.namespace)" THEN Obj(id).Namespace
                  ELSE l[2]>> : l \in criteria.LabelCriteria[1]}

\* C23: every time a builder processes an object it makes exactly one query
\* for each owned resource of each rule that matches the object's type, in
\* the order of the rules and then of their owned resources, with the
\* Secondary type of the entry and the label selector derived from the
\* object; rules that do not match make no query. (A call that fails stops
\* in this sequence.)
C23_OneQueryPerOwnedResource ==
    \A n \in DOMAIN build.calls :
        LET call == build.calls[n]
            owned == ownedResources(RulesFor(build.rules, Obj(call.obj).type))
        IN  /\ Len(call.qs) <= Len(owned)
            /\ \A j \in DOMAIN call.qs :
                  LET q == call.qs[j]
                      res == owned[j].rule.OwnedResources[owned[j].i]
                  IN  /\ q.rule = owned[j].rule /\ q.i = owned[j].i
                      /\ NamesType(res.Secondary, q.gvk)
                      /\ q.ml = Derived(call.obj, res.Criteria)
                      /\ q.listed \/ (j = Len(call.qs) /\ call.err = ErrNoKind)
            /\ call.err = NoError
                  => /\ Len(call.qs) = Len(owned)
                     /\ \A j \in DOMAIN call.qs : call.qs[j].listed

\* The Cluster was processed under a rule with one owned resource and a
\* rule with two: three queries, in that order, for Pods app=X, for
\* ConfigMaps app=X and for Pods by the selector of the Cluster; the Pod p1
\* was processed with one query for ConfigMaps owner=p1.
C23_Witness ==
    /\ build.rules = <<rClusterPods, rPodConfigMaps, rClusterBoth>>
    /\ build.pc \in {"TreeDone", "CollectDone"}
    /\ Len(build.calls[1].qs) = 3
    /\ build.calls[1].qs[1].gvk = PodGVK
    /\ build.calls[1].qs[2].gvk = ConfigMapGVK
    /\ build.calls[1].qs[3].ml = {<<"app", "X">>}
    /\ \E n \in DOMAIN build.calls :
          /\ build.calls[n].obj = "p1"
          /\ Len(build.calls[n].qs) = 1
          /\ build.calls[n].qs[1].ml = {<<"owner", "p1">>}

\* C25: when getObjectsFromCache returns without error, the identity set is
\* the key set of the map, the root's identity is in it, every other member
\* was returned by a query made for another member, and every object such a
\* query returned is a member.
C25_SetIsClosure ==
    build.pc = "CollectDone" =>
        LET set == build.objectSet[1]
            map == build.objectMap[1]
        IN  /\ set = DOMAIN map
            /\ \A k \in set : Identity(map[k]) = k
            /\ Identity(root) \in set
            /\ \A k \in set \ {Identity(root)} :
                  \E n \in DOMAIN build.calls :
                      /\ Identity(build.calls[n].obj) # k
                      /\ Identity(build.calls[n].obj) \in set
                      /\ \E j \in DOMAIN build.calls[n].qs :
                            \E i \in DOMAIN build.calls[n].qs[j].objects :
                                Identity(build.calls[n].qs[j].objects[i]) = k
            /\ \A n \in DOMAIN build.calls : \A i \in DOMAIN build.calls[n].secs :
                  Identity(build.calls[n].secs[i]) \in set
            /\ set = {Identity(id) : id \in Descendants({root})}

\* The set of the Cluster, its two Pods and their ConfigMaps was returned;
\* the Pod p3 of the other application is not in it.
C25_Witness ==
    /\ build.pc = "CollectDone"
    /\ build.rules = Fixture
    /\ Cardinality(build.objectSet[1]) = 5
    /\ Identity("p3") \notin build.objectSet[1]
    /\ Identity("m2") \in DOMAIN build.objectMap[1]

Running == build.pc \in {"Tree", "Collect"}
Ended == build.pc \in {"TreeDone", "TreeFailed", "CollectDone", "CollectFailed"}

\* C26: over the finite store, when the ownership the rules induce is
\* acyclic, a build of either builder that was started ends, in Done or in
\* Failed, after a bounded number of calls and queries.
C26_Terminates ==
    /\ [](~CyclicOwnership
            => /\ Len(build.calls) < MaxExpand
               /\ Len(build.stack) < MaxDepth
               /\ \A n \in DOMAIN build.calls :
                     Len(build.calls[n].qs) <= Len(ownedResources(build.rules)))
    /\ (~CyclicOwnership /\ Running) ~> Ended

\* Both builds of an acyclic world have ended, the second after ten turns
\* of its loop.
C26_Witness ==
    /\ ~CyclicOwnership
    /\ build.pc = "CollectDone" /\ build.tree # Nil
    /\ Len(build.calls) = 10

====
